---- MODULE Spec2Model ----
(***************************************************************************)
(* streamlit_multipage: the pickle-backed StateManager and the MultiPage   *)
(* router of src/src/streamlit_multipage/multipage.py.                     *)
(*                                                                         *)
(* A cache file holds one pickled object.  What pickle keeps of it is      *)
(* modelled: the top-level keys, each bound either to a scalar or to a     *)
(* dict object, and which keys are bound to the SAME dict object (pickle   *)
(* memoises objects, so sharing survives dump/load).                       *)
(***************************************************************************)
EXTENDS Integers, Sequences, FiniteSets, TLC

\* ------------------------------------------------------------------ bounds

\* Largest number of registered pages.
MaxApps == 2

\* Largest page index a caller passes to change_page (smallest is -MaxPage).
MaxPage == 1

\* ------------------------------------------------------------ input domains

\* Namespace names callers use ("global" and "session" are the program's own).
NS == {"global", "session", "a"}

\* Variable names callers use; "session" and "global" are variables whose
\* name equals a namespace's name.
VarNames == {"current_page", "username", "token", "session", "global", "x"}

Keys == NS \cup VarNames

\* Page names (a page's function is identified with the name it was given).
PageNames == {"A", "B"}

\* Script-run sessions of the process and the session id each run sees.
Sessions == {"s1"}

DefaultFile == "data.pkl"

FileOf(s) == IF s = "s1" THEN "s1.pkl" ELSE "s2.pkl"

\* The sessions whose script threads run() step by step, interleaved.
Threads == {"s1", "s2"}

FileNames == {DefaultFile} \cup {FileOf(s) : s \in Sessions \cup Threads}

\* Values are scalars (ints; 11 and 12 stand for the strings of a login).
EmptyDict == [k \in {} |-> 0]

LoginVars == [k \in {"username", "token"} |-> IF k = "username" THEN 11 ELSE 12]

\* The variables mappings a caller passes to save().
SaveVars ==
  { EmptyDict,
    [k \in {"x"} |-> 1],
    [k \in {"x"} |-> 2],
    [k \in {"session"} |-> 7],
    [k \in {"global"} |-> 5] }

\* The lists a caller passes as namespaces.
NsLists == {{}, {"a"}, {"a", "session"}}

\* The namespaces argument of save(): None, or a list (its set of names).
SaveNs == {[none |-> TRUE, list |-> {}]} \cup {[none |-> FALSE, list |-> s] : s \in NsLists}

\* The variables and namespaces arguments of clear_cache() (None is the
\* empty list: the code tests their truth value only).
ClearVars == {{}, {"x"}}

ClearNs == {{}, {"a"}, {"global"}}

\* ---------------------------------------------------------- pickled objects

Scalar(v) == [isDict |-> FALSE, val |-> v, vars |-> EmptyDict, shared |-> {}]

\* A dict object bound to the keys `sh` (all of them hold this one object).
DictCell(d, sh) == [isDict |-> TRUE, val |-> 0, vars |-> d, shared |-> sh]

EmptyTop == [k \in {} |-> Scalar(0)]

AbsentFile == [kind |-> "absent", top |-> EmptyTop]

MapFile(top) == [kind |-> "map", top |-> top]

\* dict.update(V)
Merge(d, V) == [k \in DOMAIN d \cup DOMAIN V |-> IF k \in DOMAIN V THEN V[k] ELSE d[k]]

\* del data[k] for the keys ks that are present: the objects stay with the
\* other keys that share them.
Unbind(top, ks) ==
  [j \in DOMAIN top \ ks |->
     IF top[j].isDict THEN [top[j] EXCEPT !.shared = @ \ ks] ELSE top[j]]

\* data[k].update(V) for every k of ks: mutates the objects, seen through
\* every key that shares them.
UpdateObjs(top, ks, V) ==
  [j \in DOMAIN top |->
     IF top[j].isDict /\ top[j].shared \cap ks # {}
       THEN [top[j] EXCEPT !.vars = Merge(@, V)]
       ELSE top[j]]

\* data[k] = V for every k of ks (keys not bound yet): one object for all.
BindNew(top, ks, V) ==
  [j \in DOMAIN top \cup ks |-> IF j \in ks THEN DictCell(V, ks) ELSE top[j]]

\* del data[k][v] for every key k bound to a dict and every v of vs that it
\* holds.
DelVars(top, vs) ==
  [j \in DOMAIN top |->
     IF top[j].isDict
       THEN [top[j] EXCEPT !.vars = [k \in DOMAIN @ \ vs |-> @[k]]]
       ELSE top[j]]

\* data.update(data["global"]): every variable of "global" becomes a
\* top-level key bound to its value, replacing what the key was bound to.
Flatten(top) ==
  LET g == top["global"].vars
      ks == DOMAIN g
  IN [j \in DOMAIN top \cup ks |->
        IF j \in ks THEN Scalar(g[j])
        ELSE IF top[j].isDict THEN [top[j] EXCEPT !.shared = @ \ ks]
        ELSE top[j]]

\* ------------------------------------------------------------ StateManager

\* The element of a singleton set.  { e(x) : x \in {v} } stands for
\* "x = v; e(x)": the value v is computed once.
The(S) == CHOOSE x \in S : TRUE

Raise(e) == [err |-> e, isMap |-> FALSE, top |-> EmptyTop]

\* StateManager.load with StateManager._load: only EOFError is caught.
Load(f) ==
  CASE f.kind = "absent" -> [err |-> "", isMap |-> TRUE, top |-> EmptyTop]
    [] f.kind = "empty" -> [err |-> "", isMap |-> TRUE, top |-> EmptyTop]
    [] f.kind = "truncated" -> Raise("UnpicklingError")
    [] f.kind = "corrupt" -> Raise("UnpicklingError")
    [] f.kind = "nonmap" -> [err |-> "", isMap |-> FALSE, top |-> EmptyTop]
    [] OTHER ->
         IF "global" \in DOMAIN f.top
           THEN IF f.top["global"].isDict
                  THEN [err |-> "", isMap |-> TRUE, top |-> Flatten(f.top)]
                  ELSE Raise("TypeError")
           ELSE [err |-> "", isMap |-> TRUE, top |-> f.top]

Wrote(f) == [err |-> "", file |-> f]

Failed(e, f) == [err |-> e, file |-> f]

\* StateManager.save with StateManager._save, on the cache file's content f.
SaveOp(f, V, nsArg) ==
  IF V = EmptyDict THEN Wrote(f)
  ELSE
    LET N == IF nsArg.none THEN {"global"} ELSE nsArg.list
    IN The({ IF ld.err # "" THEN Failed(ld.err, f)
             ELSE IF ~ld.isMap THEN (IF N = {} THEN Wrote(f) ELSE Failed("TypeError", f))
             ELSE IF \E k \in N \cap DOMAIN ld.top : ~ld.top[k].isDict
               THEN Failed("AttributeError", f)
             ELSE Wrote(MapFile(BindNew(UpdateObjs(ld.top, N \cap DOMAIN ld.top, V),
                                        N \ DOMAIN ld.top, V)))
             : ld \in {Load(f)} })

\* StateManager.change_page
ChangePageOp(f, page) == SaveOp(f, [k \in {"current_page"} |-> page], [none |-> FALSE, list |-> {"global"}])

\* StateManager.clear_cache(variables=vs, namespaces=nss, all_variables=all)
ClearCacheOp(f, vs, nss, all) ==
  The({ IF ld.err # "" THEN Failed(ld.err, f)
        ELSE IF ~ld.isMap THEN
          (IF all THEN Failed("AttributeError", f)
           ELSE IF nss # {} /\ vs = {} THEN Failed("TypeError", f)
           ELSE IF vs # {} THEN Failed("AttributeError", f)
           ELSE Wrote(f))
        ELSE IF all THEN Wrote(AbsentFile)
        ELSE IF nss # {} /\ vs = {} THEN Wrote(MapFile(Unbind(ld.top, nss)))
        ELSE IF vs # {} THEN
          (IF \E k \in DOMAIN ld.top : ~ld.top[k].isDict
             THEN Failed("TypeError", f)
             ELSE Wrote(MapFile(DelVars(ld.top, vs))))
        ELSE Wrote(MapFile(ld.top))
        : ld \in {Load(f)} })

Answer(v) == [err |-> "", val |-> v]

Throws(e) == [err |-> e, val |-> 0]

\* StateManager.read_current_page: reads load()["global"]
ReadCurrentPage(f) ==
  The({ IF ld.err # "" THEN Throws(ld.err)
        ELSE IF ~ld.isMap THEN Throws("TypeError")
        ELSE IF "global" \notin DOMAIN ld.top THEN Answer(0)
        ELSE IF ~ld.top["global"].isDict THEN Throws("TypeError")
        ELSE IF "current_page" \in DOMAIN ld.top["global"].vars
          THEN Answer(ld.top["global"].vars["current_page"])
        ELSE Answer(0)
        : ld \in {Load(f)} })

\* StateManager.is_logged_in: reads load().get('session', '')
IsLoggedIn(f) ==
  The({ IF ld.err # "" THEN [err |-> ld.err, val |-> FALSE]
        ELSE IF ~ld.isMap THEN [err |-> "AttributeError", val |-> FALSE]
        ELSE IF "session" \notin DOMAIN ld.top THEN [err |-> "", val |-> FALSE]
        ELSE IF ~ld.top["session"].isDict THEN [err |-> "TypeError", val |-> FALSE]
        ELSE [err |-> "", val |-> {"username", "token"} \subseteq DOMAIN ld.top["session"].vars]
        : ld \in {Load(f)} })

\* MultiPage.login: save the session variables, then change_page(0)
LoginOp(f) ==
  The({ IF s.err # "" THEN s ELSE ChangePageOp(s.file, 0)
        : s \in {SaveOp(f, LoginVars, [none |-> FALSE, list |-> {"session"}])} })

\* MultiPage.logout: clear_cache(all_variables=True), then change_page(-1)
LogoutOp(f) ==
  The({ IF c.err # "" THEN c ELSE ChangePageOp(c.file, -1)
        : c \in {ClearCacheOp(f, {}, {}, TRUE)} })

\* --------------------------------------------------------------- MultiPage

PossibleStyles == {"VerticalButton", "HorizontalButton", "SelectBox"}

\* The class default, which is not a possible style.
DefaultStyle == "Button"

Max(a, b) == IF a >= b THEN a ELSE b

Min(a, b) == IF a <= b THEN a ELSE b

\* list.index(x), 0-based: the first position holding x
IndexOf(seq, x) == CHOOSE i \in 0..(Len(seq) - 1) : seq[i + 1] = x /\ \A j \in 0..(i - 1) : seq[j + 1] # x

\* Sidebar input of one run: the button pressed, if any (btn; idx is the
\* position of a pressed page button), and the option the selectbox shows (sel).
NoInput == [btn |-> "none", idx |-> 0, sel |-> 0]

NavInputs(n) ==
  {[btn |-> b, idx |-> 0, sel |-> 0] : b \in {"none", "reset", "prev", "next"}}
    \cup {[btn |-> "page", idx |-> i, sel |-> 0] : i \in 0..(n - 1)}
    \cup {[btn |-> b, idx |-> 0, sel |-> i] : b \in {"none", "reset", "prev", "next"}, i \in 0..(n - 1)}

\* _render_next_previous with "Next Page" not bounded by the number of pages.
RenderNextPreviousUnbounded(f, n, btn) ==
  The({ IF rp.err # "" THEN Failed(rp.err, f)
        ELSE IF btn = "reset" THEN ChangePageOp(f, -1)
        ELSE IF btn = "prev" THEN ChangePageOp(f, Max(0, rp.val - 1))
        ELSE IF btn = "next" THEN ChangePageOp(f, rp.val + 1)
        ELSE Wrote(f)
        : rp \in {ReadCurrentPage(f)} })

\* MultiPage._render_next_previous
RenderNextPrevious(f, n, btn) ==
  The({ IF rp.err # "" THEN Failed(rp.err, f)
        ELSE IF btn = "reset" THEN ChangePageOp(f, -1)
        ELSE IF btn = "prev" THEN ChangePageOp(f, Max(0, rp.val - 1))
        ELSE IF btn = "next" THEN ChangePageOp(f, Min(n - 1, rp.val + 1))
        ELSE Wrote(f)
        : rp \in {ReadCurrentPage(f)} })

\* MultiPage._render_navbar, the replacement of an invalid navbar_style
NormalStyle(style) == IF style \notin PossibleStyles THEN "VerticalButton" ELSE style

\* MultiPage._render_navbar, the page buttons or the selectbox
RenderStyle(f, pages, style, inp) ==
  LET n == Len(pages)
  IN IF style = "HorizontalButton" THEN
       (IF n = 0 THEN Failed("StreamlitAPIException", f)
        ELSE IF inp.btn = "page" THEN ChangePageOp(f, inp.idx)
        ELSE Wrote(f))
     ELSE IF style = "VerticalButton" THEN
       (IF inp.btn = "page" THEN ChangePageOp(f, inp.idx) ELSE Wrote(f))
     ELSE
       (IF n = 0 THEN Failed("ValueError", f)
        ELSE ChangePageOp(f, IndexOf(pages, pages[inp.sel + 1])))

\* header, footer: whether one is set; navbar_extra: "" when none is set,
\* else what the function set does.
NoHooks == [header |-> FALSE, footer |-> FALSE, navbar_extra |-> ""]

\* The navbar_extra functions in use: "text" writes to the sidebar, "clear"
\* removes the session variables with clear_cache(namespaces=["session"]).
ExtraKinds == {"text", "clear"}

HookSets == [header : BOOLEAN, footer : BOOLEAN, navbar_extra : {""} \cup ExtraKinds]

\* MultiPage._render_navbar, the call of navbar_extra.func
NavbarExtra(f, extra) ==
  IF extra = "clear" THEN ClearCacheOp(f, {}, {"session"}, FALSE) ELSE Wrote(f)

\* MultiPage._render_navbar: the file it leaves, the navbar_style it leaves,
\* (nav) the current page stored when _render_next_previous returned, and
\* (calls) what it called
RenderNavbar(f, pages, style, hide, inp, extra) ==
  The({ IF np.err # ""
          THEN [err |-> np.err, file |-> np.file, style |-> style, nav |-> 0,
                calls |-> <<"navbar">>]
          ELSE The({ IF st.err # "" \/ extra = ""
                       THEN [err |-> st.err, file |-> st.file, style |-> NormalStyle(style),
                             nav |-> ReadCurrentPage(np.file).val, calls |-> <<"navbar">>]
                       ELSE The({ [err |-> ex.err, file |-> ex.file, style |-> NormalStyle(style),
                                   nav |-> ReadCurrentPage(np.file).val,
                                   calls |-> <<"navbar", "navbar_extra">>]
                                  : ex \in {NavbarExtra(st.file, extra)} })
                     : st \in {RenderStyle(np.file, pages, NormalStyle(style), inp)} })
        : np \in {IF hide THEN Wrote(f) ELSE RenderNextPrevious(f, Len(pages), inp.btn)} })

Invoked(kind, idx) == [kind |-> kind, idx |-> idx]

Ran(e, f, inv, style, pre, nav, calls) ==
  [err |-> e, file |-> f, invoked |-> inv, style |-> style, pre |-> pre, nav |-> nav,
   order |-> calls]

\* The calls that invoking the page functions inv adds to a run's order.
Calls(inv) == [i \in 1..Len(inv) |-> inv[i].kind]

\* MultiPage._run, the call of the initial page (None has no func)
RunInitial(f, initial) ==
  IF initial = "" THEN [err |-> "AttributeError", invoked |-> <<>>]
  ELSE [err |-> "", invoked |-> <<Invoked("initial", 0)>>]

\* The position a Python list of length n gives for subscript page.
ListIndex(n, page) == IF page < 0 THEN page + n ELSE page

\* MultiPage._run, from the second is_logged_in test on: the page dispatch
Dispatch(f, pages, initial) ==
  LET n == Len(pages)
  IN The({ IF li.err # "" THEN [err |-> li.err, invoked |-> <<>>]
           ELSE IF ~li.val THEN RunInitial(f, initial)
           ELSE The({ LET page == IF rp.val >= n THEN 0 ELSE rp.val
                      IN IF rp.err # "" THEN [err |-> rp.err, invoked |-> <<>>]
                         ELSE IF page >= n \/ page < -n
                           THEN [err |-> "IndexError", invoked |-> <<>>]
                         ELSE [err |-> "", invoked |-> <<Invoked("page", ListIndex(n, page))>>]
                      : rp \in {ReadCurrentPage(f)} })
           : li \in {IsLoggedIn(f)} })

\* _run calling the footer after whichever page function it invoked.
FooterAfterAnyPage(d, hk) ==
  IF hk.footer /\ d.err = "" /\ d.invoked # <<>> THEN <<"footer">> ELSE <<>>

\* MultiPage._run, the call of the footer: after a registered page returned
Footer(d, hk) ==
  IF hk.footer /\ d.err = "" /\ d.invoked # <<>> /\ d.invoked[1].kind = "page"
    THEN <<"footer">> ELSE <<>>

\* MultiPage._run
RunOp(f, pages, initial, style, hide, inp, hk) ==
  LET first == RunInitial(f, initial)
      pre == ReadCurrentPage(f).val
      head == IF hk.header THEN <<"header">> ELSE <<>>
  IN The({ IF li.err # "" THEN Ran(li.err, f, <<>>, style, 0, 0, <<>>)
           ELSE IF ~li.val
             THEN Ran(first.err, f, first.invoked, style, 0, 0, Calls(first.invoked))
           ELSE The({ IF nav.err # ""
                        THEN Ran(nav.err, nav.file, <<>>, nav.style, pre, nav.nav,
                                 head \o nav.calls)
                        ELSE The({ Ran(d.err, nav.file, d.invoked, nav.style, pre, nav.nav,
                                       head \o nav.calls \o Calls(d.invoked) \o Footer(d, hk))
                                   : d \in {Dispatch(nav.file, pages, initial)} })
                      : nav \in {RenderNavbar(f, pages, style, hide, inp, hk.navbar_extra)} })
           : li \in {IsLoggedIn(f)} })

\* MultiPage.run: _run is called under avoid_collisions only
RunCalls(avoid_collisions) == avoid_collisions

\* add_app setting the initial page on every call with initial_page=True.
SetsInitialEveryTime(initial, flag) == flag

\* MultiPage.add_app: TRUE when the call sets the initial page
SetsInitial(initial, flag) == flag /\ initial = ""

\* ------------------------------------------------------------------- state

VARIABLES
  files,           \* cache directory: file name -> pickled content
  cache_filename,  \* the module-level StateManager's cache_filename
  apps,            \* MultiPage.__apps: the registered pages, in order
  initial_page,    \* MultiPage.__initial_page ("" is None)
  navbar_style,    \* MultiPage.navbar_style
  invoked,         \* the page functions the last run() invoked, in order
  exc,             \* exception the last operation raised ("" is none)
  last,            \* the last operation and its inputs
  hooks,           \* MultiPage.__header, __footer, __navbar_extra
  order,           \* everything the last run() called, in order
  pc               \* where the script thread of each session stands in run()

vars == <<files, cache_filename, apps, initial_page, navbar_style, invoked, exc, last, hooks, order, pc>>

\* name: the page name of an add_app; inp: the sidebar input of a run; arg:
\* the flag of the call (initial_page, avoid_collisions, all_variables);
\* pre: the current page a run's navbar read first; nav: the current page
\* stored when its _render_next_previous returned.
Op(op, name, inp, arg, pre, nav) ==
  [op |-> op, name |-> name, inp |-> inp, arg |-> arg, pre |-> pre, nav |-> nav]

CacheFile == files[cache_filename]

Init ==
  /\ files = [n \in FileNames |-> AbsentFile]
  /\ cache_filename = DefaultFile
  /\ apps = <<>>
  /\ initial_page = ""
  /\ navbar_style = DefaultStyle
  /\ invoked = <<>>
  /\ exc = ""
  /\ last = Op("init", "", NoInput, FALSE, 0, 0)
  /\ hooks = NoHooks
  /\ order = <<>>
  /\ pc = [s \in Threads |-> "idle"]

\* The result r of a store operation on the current cache file.
Store(r, op) ==
  /\ files' = [files EXCEPT ![cache_filename] = r.file]
  /\ exc' = r.err
  /\ last' = op
  /\ UNCHANGED <<cache_filename, apps, initial_page, navbar_style, invoked, hooks, order, pc>>

Save(V, nsArg) == Store(SaveOp(CacheFile, V, nsArg), Op("save", "", NoInput, FALSE, 0, 0))

ChangePage(page) == Store(ChangePageOp(CacheFile, page), Op("change_page", "", NoInput, FALSE, 0, 0))

ClearCache(vs, nss, all) == Store(ClearCacheOp(CacheFile, vs, nss, all), Op("clear_cache", "", NoInput, all, 0, 0))

Login == Store(LoginOp(CacheFile), Op("login", "", NoInput, FALSE, 0, 0))

Logout == Store(LogoutOp(CacheFile), Op("logout", "", NoInput, FALSE, 0, 0))

\* add_app(name, func, initial_page=flag)
AddApp(name, flag) ==
  /\ SetsInitial(initial_page, flag) \/ Len(apps) < MaxApps
  /\ initial_page' = IF SetsInitial(initial_page, flag) THEN name ELSE initial_page
  /\ apps' = IF SetsInitial(initial_page, flag) THEN apps ELSE Append(apps, name)
  /\ last' = Op("add_app", name, NoInput, flag, 0, 0)
  /\ exc' = ""
  /\ UNCHANGED <<files, cache_filename, navbar_style, invoked, hooks, order, pc>>

\* The script assigns navbar_style.
SetNavbarStyle(style) ==
  /\ style # navbar_style
  /\ navbar_style' = style
  /\ exc' = ""
  /\ last' = Op("navbar_style", "", NoInput, FALSE, 0, 0)
  /\ UNCHANGED <<files, cache_filename, apps, initial_page, invoked, hooks, order, pc>>

\* The cache file as an interrupted dump or another writer leaves it: of
\* length zero or cut after the protocol header ("empty": EOFError), cut
\* inside the pickle ("truncated"), not a pickle ("corrupt"), or the pickle of
\* a list ("nonmap").
DamagedKinds == {"empty", "truncated", "corrupt", "nonmap"}

Damage(kind) ==
  /\ files' = [files EXCEPT ![cache_filename] = [kind |-> kind, top |-> EmptyTop]]
  /\ exc' = ""
  /\ last' = Op("damage", "", NoInput, FALSE, 0, 0)
  /\ UNCHANGED <<cache_filename, apps, initial_page, navbar_style, invoked, hooks, order, pc>>

\* The inputs the sidebar of a run can give: none unless the navbar is
\* rendered, and only from the widgets the style and hide_navigation show.
SidebarInputs(f, avoid, hide) ==
  IF ~RunCalls(avoid) \/ ~IsLoggedIn(f).val THEN {NoInput}
  ELSE {inp \in NavInputs(Len(apps)) :
          /\ hide => inp.btn \notin {"reset", "prev", "next"}
          /\ inp.btn = "page" => NormalStyle(navbar_style) # "SelectBox"
          /\ inp.sel # 0 => NormalStyle(navbar_style) = "SelectBox"}

\* run(avoid_collisions=avoid) in a script run of session s, with
\* hide_navigation=hide and the sidebar input inp
Run(s, avoid, hide, inp) ==
  LET name == IF avoid THEN FileOf(s) ELSE cache_filename
      f == files[name]
  IN \E r \in {IF RunCalls(avoid)
                 THEN RunOp(f, apps, initial_page, navbar_style, hide, inp, hooks)
                 ELSE Ran("", f, <<>>, navbar_style, 0, 0, <<>>)} :
       /\ cache_filename' = name
       /\ files' = [files EXCEPT ![name] = r.file]
       /\ navbar_style' = r.style
       /\ invoked' = r.invoked
       /\ exc' = r.err
       /\ last' = Op("run", "", inp, avoid, r.pre, r.nav)
       /\ order' = r.order
       /\ UNCHANGED <<apps, initial_page, hooks, pc>>

\* The script sets header, footer and navbar_extra.
SetHooks(h) ==
  /\ h # hooks
  /\ hooks' = h
  /\ exc' = ""
  /\ last' = Op("hooks", "", NoInput, FALSE, 0, 0)
  /\ UNCHANGED <<files, cache_filename, apps, initial_page, navbar_style, invoked, order, pc>>

\* ---- run(avoid_collisions=True) of session s, one step at a time.  The
\* script threads of the sessions share the one StateManager of the module
\* and nothing orders their steps.  pc[s]: "idle" (no run), "bound" (the
\* cache file is named, _run not entered), "navbar" (logged in, before
\* _render_navbar), "dispatch" (after it), "initial" and "page" (inside that
\* page function).  invoked and order describe whole runs and are left alone.

Step(s) == Op("step", s, NoInput, TRUE, 0, 0)

\* run, up to the call of _run: names the cache file after the session
RunBegin(s) ==
  /\ pc[s] = "idle"
  /\ cache_filename' = FileOf(s)
  /\ pc' = [pc EXCEPT ![s] = "bound"]
  /\ exc' = ""
  /\ last' = Step(s)
  /\ UNCHANGED <<files, apps, initial_page, navbar_style, invoked, hooks, order>>

\* _run, the first is_logged_in tests, then the initial page or the header
RunTest(s) ==
  /\ pc[s] = "bound"
  /\ \E li \in {IsLoggedIn(CacheFile)}, first \in {RunInitial(CacheFile, initial_page)} :
       /\ exc' = IF li.err # "" THEN li.err ELSE IF ~li.val THEN first.err ELSE ""
       /\ pc' = [pc EXCEPT ![s] = IF li.err # "" THEN "idle"
                                  ELSE IF li.val THEN "navbar"
                                  ELSE IF first.err # "" THEN "idle" ELSE "initial"]
  /\ last' = Step(s)
  /\ UNCHANGED <<files, cache_filename, apps, initial_page, navbar_style, invoked, hooks, order>>

\* _run, the call of _render_navbar
RunNavbar(s, hide, inp) ==
  /\ pc[s] = "navbar"
  /\ \E nav \in {RenderNavbar(CacheFile, apps, navbar_style, hide, inp, hooks.navbar_extra)} :
       /\ files' = [files EXCEPT ![cache_filename] = nav.file]
       /\ navbar_style' = nav.style
       /\ exc' = nav.err
       /\ pc' = [pc EXCEPT ![s] = IF nav.err # "" THEN "idle" ELSE "dispatch"]
  /\ last' = Step(s)
  /\ UNCHANGED <<cache_filename, apps, initial_page, invoked, hooks, order>>

\* _run, from the second is_logged_in test to the call of the page function
RunDispatch(s) ==
  /\ pc[s] = "dispatch"
  /\ \E d \in {Dispatch(CacheFile, apps, initial_page)} :
       /\ exc' = d.err
       /\ pc' = [pc EXCEPT ![s] = IF d.err # "" THEN "idle" ELSE d.invoked[1].kind]
  /\ last' = Step(s)
  /\ UNCHANGED <<files, cache_filename, apps, initial_page, navbar_style, invoked, hooks, order>>

\* A store operation with result r made by the page function of session s;
\* to is where the thread stands afterwards.
PageStore(s, r, to) ==
  /\ files' = [files EXCEPT ![cache_filename] = r.file]
  /\ exc' = r.err
  /\ pc' = [pc EXCEPT ![s] = to]
  /\ last' = Step(s)
  /\ UNCHANGED <<cache_filename, apps, initial_page, navbar_style, invoked, hooks, order>>

\* The initial page calls login: st.rerun() ends the run.
InitialLogin(s) == pc[s] = "initial" /\ PageStore(s, LoginOp(CacheFile), "idle")

\* A registered page calls save(V, ["a"]).
PageSave(s, V) ==
  pc[s] = "page" /\ PageStore(s, SaveOp(CacheFile, V, [none |-> FALSE, list |-> {"a"}]), "page")

\* A registered page calls logout: st.rerun() ends the run.
PageLogout(s) == pc[s] = "page" /\ PageStore(s, LogoutOp(CacheFile), "idle")

\* The page function returns, and with it _run.
RunEnd(s) ==
  /\ pc[s] \in {"initial", "page"}
  /\ pc' = [pc EXCEPT ![s] = "idle"]
  /\ exc' = ""
  /\ last' = Step(s)
  /\ UNCHANGED <<files, cache_filename, apps, initial_page, navbar_style, invoked, hooks, order>>

\* The variables mappings a registered page saves.
PageVars == {[k \in {"x"} |-> 1]}

\* The sidebar inputs of a run taken step by step.
StepInputs == {inp \in NavInputs(Len(apps)) : inp.sel = 0 /\ inp.btn \in {"none", "next"}}

\* The script registers its pages before the first run of the process.
NextThreads ==
  \/ \E name \in PageNames, flag \in BOOLEAN : cache_filename = DefaultFile /\ AddApp(name, flag)
  \/ \E s \in Threads :
       \/ RunBegin(s)
       \/ RunTest(s)
       \/ \E inp \in StepInputs : RunNavbar(s, FALSE, inp)
       \/ RunDispatch(s)
       \/ InitialLogin(s)
       \/ \E V \in PageVars : PageSave(s, V)
       \/ PageLogout(s)
       \/ RunEnd(s)

\* The script threads of two sessions, interleaved.
SpecThreads == Init /\ [][NextThreads]_vars

NextStore ==
  \/ \E V \in SaveVars, nsArg \in SaveNs : Save(V, nsArg)
  \/ \E page \in (-MaxPage)..MaxPage : ChangePage(page)
  \/ \E vs \in ClearVars, nss \in ClearNs, all \in BOOLEAN : ClearCache(vs, nss, all)
  \/ Login
  \/ Logout

NextNav ==
  \/ \E name \in PageNames, flag \in BOOLEAN : AddApp(name, flag)
  \/ \E style \in PossibleStyles : SetNavbarStyle(style)
  \/ \E s \in Sessions, avoid \in BOOLEAN, hide \in BOOLEAN :
       \E inp \in SidebarInputs(files[IF avoid THEN FileOf(s) ELSE cache_filename], avoid, hide) :
         Run(s, avoid, hide, inp)
  \/ Login
  \/ Logout

Next == NextStore \/ NextNav \/ \E kind \in DamagedKinds : Damage(kind)

Spec == Init /\ [][Next]_vars

\* The StateManager's operations alone.
SpecStore == Init /\ [][NextStore]_vars

\* Page registration, runs with their sidebar input, login and logout.
SpecNav == Init /\ [][NextNav]_vars

NextFiles == NextStore \/ \E kind \in DamagedKinds : Damage(kind)

\* The StateManager's operations on a cache file that can be damaged.
SpecFiles == Init /\ [][NextFiles]_vars

\* The script registers its pages and sets header, footer and navbar_extra
\* before the first run of the process; then runs, logins and logouts.
NextHooks ==
  \/ \E name \in PageNames, flag \in BOOLEAN : cache_filename = DefaultFile /\ AddApp(name, flag)
  \/ \E h \in HookSets : cache_filename = DefaultFile /\ SetHooks(h)
  \/ \E s \in Sessions, avoid \in BOOLEAN, hide \in BOOLEAN :
       \E inp \in SidebarInputs(files[IF avoid THEN FileOf(s) ELSE cache_filename], avoid, hide) :
         Run(s, avoid, hide, inp)
  \/ Login
  \/ Logout

\* Runs of a script with header, footer and navbar_extra.
SpecHooks == Init /\ [][NextHooks]_vars

\* ------------------------------------------------------------------ claims

\* What load()[m] is: the dict of namespace m (empty when the key is missing,
\* as the defaultdict gives it), or the scalar that key m is bound to.
Loaded(f, m) ==
  The({ IF m \in DOMAIN ld.top
          THEN [isDict |-> ld.top[m].isDict, val |-> ld.top[m].val, vars |-> ld.top[m].vars]
          ELSE [isDict |-> TRUE, val |-> 0, vars |-> EmptyDict]
        : ld \in {Load(f)} })

\* The namespaces a save() with this namespaces argument writes.
TargetsOf(nsArg) == IF nsArg.none THEN {"global"} ELSE nsArg.list

NoRaise(page) == [err |-> "", val |-> page]

LoggedIn == IsLoggedIn(CacheFile) = [err |-> "", val |-> TRUE]

StoredPage == ReadCurrentPage(CacheFile).val

\* C1: a run() of a logged-in session with n >= 1 pages invokes the page at
\* position p, the persisted current_page, when 0 <= p < n, and the page at
\* position 0 for every other persisted value.
C1_DispatchByCurrentPage ==
  (last.op = "run" /\ last.arg /\ exc = "" /\ LoggedIn /\ Len(apps) >= 1) =>
     invoked = <<Invoked("page", IF 0 <= StoredPage /\ StoredPage < Len(apps) THEN StoredPage ELSE 0)>>

\* C2: every run(avoid_collisions=b), for both values of b, invokes exactly
\* one page function: the initial page when not logged in, otherwise a
\* registered page.
C2_RunDispatches ==
  (last.op = "run" /\ exc = "" /\ initial_page # "" /\ Len(apps) >= 1) =>
     /\ Len(invoked) = 1
     /\ invoked[1].kind = IF LoggedIn THEN "page" ELSE "initial"

\* C3: after a save(V, N) with non-empty V that returns, load() gives every
\* namespace of N (of "global" with N omitted) the keys of V with the saved
\* values and its earlier keys with their earlier values; and load() of a
\* namespace stays the same through a save that does not write it.
C3_SaveThenLoad ==
  [][\A V \in SaveVars \ {EmptyDict}, nsArg \in SaveNs :
       (Save(V, nsArg) /\ exc' = "") =>
          /\ \A m \in TargetsOf(nsArg) :
               Loaded(CacheFile', m) =
                 [isDict |-> TRUE, val |-> 0, vars |-> Merge(Loaded(CacheFile, m).vars, V)]
          /\ \A m \in NS \ TargetsOf(nsArg) :
               Loaded(CacheFile', m).vars = Loaded(CacheFile, m).vars]_vars

\* C4: save(V, N) leaves load()[m] as it was for every namespace m not in N.
C4_SaveFrame ==
  [][\A V \in SaveVars, nsArg \in SaveNs :
       Save(V, nsArg) =>
          \A m \in NS \ TargetsOf(nsArg) : Loaded(CacheFile', m) = Loaded(CacheFile, m)]_vars

\* C5: a cache file that is present holds a mapping whose every top-level
\* value is itself a mapping: no variable is persisted at the top level.
C5_FileIsNamespaceMap ==
  \A name \in FileNames :
     files[name].kind = "map" =>
        \A k \in DOMAIN files[name].top : files[name].top[k].isDict

\* C6: on a cache file that is absent, empty, truncated, corrupt or not the
\* pickle of a mapping, load() returns an empty mapping without raising,
\* read_current_page() returns 0 and is_logged_in() returns false.
C6_ReadFailureIsEmpty ==
  CacheFile.kind \in DamagedKinds \cup {"absent"} =>
     /\ Load(CacheFile) = [err |-> "", isMap |-> TRUE, top |-> EmptyTop]
     /\ ReadCurrentPage(CacheFile) = NoRaise(0)
     /\ IsLoggedIn(CacheFile) = [err |-> "", val |-> FALSE]

\* C7: clear_cache(variables=V) returns without raising, and afterwards every
\* namespace holds what it held before except the names of V.
C7_ClearVariables ==
  [][\A vs \in ClearVars \ {{}}, nss \in ClearNs :
       ClearCache(vs, nss, FALSE) =>
          /\ exc' = ""
          /\ \A m \in NS :
               Loaded(CacheFile', m).vars =
                 [k \in DOMAIN Loaded(CacheFile, m).vars \ vs |-> Loaded(CacheFile, m).vars[k]]]_vars

\* C8: with n >= 1 pages, a run in which Previous Page or Next Page is pressed
\* stores a current_page within 0..n-1: Next on the last page and Previous on
\* the first page store the page read, every other press stores a page one
\* away from the page read.
C8_NextPreviousInRange ==
  (last.op = "run" /\ last.inp.btn \in {"prev", "next"} /\ Len(apps) >= 1) =>
     LET n == Len(apps)
         stays == \/ last.inp.btn = "next" /\ last.pre = n - 1
                  \/ last.inp.btn = "prev" /\ last.pre = 0
     IN /\ exc = ""
        /\ last.nav \in 0..(n - 1)
        /\ stays => last.nav = last.pre
        /\ ~stays => last.nav - last.pre \in {-1, 1}

\* C8 witness: Next Page was pressed on the last of at least two pages.
C8_Witness ==
  /\ last.op = "run" /\ last.inp.btn = "next"
  /\ Len(apps) >= 2 /\ last.pre = Len(apps) - 1 /\ last.nav = last.pre

\* C9: only an add_app call with initial_page=True made while no initial page
\* is set sets the initial page, and it appends nothing; every other add_app
\* call appends its page at the end of the list and keeps the initial page;
\* no step moves or removes a registered page or changes a set initial page.
C9_RegistrationOrder ==
  [][/\ initial_page # "" => initial_page' = initial_page
     /\ Len(apps') >= Len(apps)
     /\ \A i \in 1..Len(apps) : apps'[i] = apps[i]
     /\ last'.op = "add_app" =>
          IF last'.arg /\ initial_page = ""
            THEN initial_page' = last'.name /\ apps' = apps
            ELSE apps' = Append(apps, last'.name) /\ initial_page' = initial_page]_vars

\* C9 witness: a second add_app call with initial_page=True was appended
\* behind an earlier page and left the initial page alone.
C9_Witness ==
  /\ last.op = "add_app" /\ last.arg
  /\ initial_page # "" /\ initial_page # last.name
  /\ Len(apps) = 2 /\ apps[2] = last.name

\* C10: after login, is_logged_in() is true and read_current_page() is 0, and
\* the next run() without sidebar input invokes the first registered page;
\* after logout, is_logged_in() is false, load() holds no username and no
\* token, and the next run() invokes the initial page alone; is_logged_in() is
\* true exactly when the session namespace holds username and token.
C10_SessionLifeCycle ==
  /\ [](last.op = "login" => exc = "" /\ LoggedIn /\ ReadCurrentPage(CacheFile) = NoRaise(0))
  /\ [](last.op = "logout" =>
          /\ exc = "" /\ IsLoggedIn(CacheFile) = [err |-> "", val |-> FALSE]
          /\ \A m \in Keys : DOMAIN Loaded(CacheFile, m).vars \cap {"username", "token"} = {}
          /\ DOMAIN Load(CacheFile).top \cap {"username", "token"} = {})
  /\ [](IsLoggedIn(CacheFile).val <=>
          /\ CacheFile.kind = "map" /\ "session" \in DOMAIN CacheFile.top
          /\ {"username", "token"} \subseteq DOMAIN CacheFile.top["session"].vars)
  /\ [][(last'.op = "run" /\ last'.arg /\ last'.inp = NoInput
           /\ initial_page # "" /\ Len(apps) >= 1) =>
          /\ last.op = "login" => invoked' = <<Invoked("page", 0)>>
          /\ last.op = "logout" => invoked' = <<Invoked("initial", 0)>>]_vars

\* C11: with the runs of two sessions interleaved, every step that the run of
\* a session s makes after naming its cache file (each load, each save) and
\* that does not raise works on the file named after s, and leaves the cache file of the other session
\* as it is.
C11_SessionFilesApart ==
  [][\A s \in Threads :
       (last'.op = "step" /\ last'.name = s /\ pc[s] # "idle" /\ exc' = "") =>
          /\ cache_filename = FileOf(s)
          /\ \A t \in Threads \ {s} : files'[FileOf(t)] = files[FileOf(t)]]_vars

\* The cache file f stores variable v in a namespace of N and nowhere else.
StoredOnlyIn(f, v, N) ==
  /\ \E m \in N \cap DOMAIN f.top : f.top[m].isDict /\ v \in DOMAIN f.top[m].vars
  /\ \A m \in DOMAIN f.top \ N :
       m # v /\ (f.top[m].isDict => v \notin DOMAIN f.top[m].vars)

\* The mapping load() returns holds v, as a key or inside a namespace.
LoadHolds(f, v) ==
  \E ld \in {Load(f)} :
     \/ v \in DOMAIN ld.top
     \/ \E m \in DOMAIN ld.top : ld.top[m].isDict /\ v \in DOMAIN ld.top[m].vars

\* C12: clear_cache(namespaces=N) alone returns without raising; afterwards
\* load() has no key of N and holds, at no level, a variable that was stored
\* in namespaces of N only, and every namespace outside N loads as before.
C12_ClearNamespaces ==
  [][\A nss \in ClearNs \ {{}} :
       ClearCache({}, nss, FALSE) =>
          /\ exc' = ""
          /\ \A m \in nss : m \notin DOMAIN Load(CacheFile').top
          /\ \A v \in VarNames : StoredOnlyIn(CacheFile, v, nss) => ~LoadHolds(CacheFile', v)
          /\ \A m \in NS \ nss : Loaded(CacheFile', m) = Loaded(CacheFile, m)]_vars

\* C13: after clear_cache(all_variables=True), with any variables and
\* namespaces arguments, the call has returned without raising, the cache
\* file does not exist, load() returns an empty mapping, read_current_page()
\* returns 0 and is_logged_in() returns false.
C13_ClearAll ==
  (last.op = "clear_cache" /\ last.arg) =>
     /\ exc = ""
     /\ CacheFile.kind = "absent"
     /\ Load(CacheFile) = [err |-> "", isMap |-> TRUE, top |-> EmptyTop]
     /\ ReadCurrentPage(CacheFile) = NoRaise(0)
     /\ IsLoggedIn(CacheFile) = [err |-> "", val |-> FALSE]

\* C14: a run that finds the session logged in calls the header (if set),
\* then the navbar (with navbar_extra, if set), then exactly one registered
\* page, then the footer (if set); when navbar_extra removes the session
\* variables it calls the initial page after the navbar and neither a
\* registered page nor the footer; a run that finds the session not logged in
\* calls the initial page and nothing else.
C14_RunOrder ==
  [][(last'.op = "run" /\ last'.arg /\ initial_page # "" /\ Len(apps) >= 1) =>
       LET head == IF hooks.header THEN <<"header">> ELSE <<>>
           nav == IF hooks.navbar_extra # "" THEN <<"navbar", "navbar_extra">> ELSE <<"navbar">>
           foot == IF hooks.footer THEN <<"footer">> ELSE <<>>
           atStart == IsLoggedIn(files[cache_filename']).val
           removed == hooks.navbar_extra = "clear"
       IN /\ exc' = ""
          /\ order' =
               IF ~atStart THEN <<"initial">>
               ELSE IF removed THEN head \o nav \o <<"initial">>
               ELSE head \o nav \o <<"page">> \o foot
          /\ Len(invoked') = 1
          /\ invoked'[1].kind = IF atStart /\ ~removed THEN "page" ELSE "initial"]_vars

\* C14 witness: with header and footer set, navbar_extra removed the session
\* variables of a logged-in session and the run went on to the initial page.
C14_Witness ==
  /\ last.op = "run" /\ hooks.footer
  /\ order = <<"header", "navbar", "navbar_extra", "initial">>
  /\ invoked = <<Invoked("initial", 0)>>

\* C15: in every navbar style, a run of a logged-in session in which Next Page
\* is pressed while the current page p is below n-1 invokes page p+1 and leaves
\* p+1 stored; one in which Previous Page is pressed while p > 0 invokes and
\* leaves stored p-1; one with no button pressed (and, in the SelectBox style,
\* the selectbox showing page p) leaves p stored.
C15_NextPreviousDispatch ==
  [][(last'.op = "run" /\ last'.arg /\ Len(apps) >= 1
        /\ IsLoggedIn(files[cache_filename']).val) =>
       LET p == ReadCurrentPage(files[cache_filename']).val
           after == ReadCurrentPage(files'[cache_filename'])
           btn == last'.inp.btn
       IN /\ (btn = "next" /\ p < Len(apps) - 1) =>
               exc' = "" /\ invoked' = <<Invoked("page", p + 1)>> /\ after = NoRaise(p + 1)
          /\ (btn = "prev" /\ p > 0) =>
               exc' = "" /\ invoked' = <<Invoked("page", p - 1)>> /\ after = NoRaise(p - 1)
          /\ (btn = "none"
                /\ (NormalStyle(navbar_style) = "SelectBox" => last'.inp.sel = p)) =>
               exc' = "" /\ after = NoRaise(p)]_vars

====
